---- MODULE Spec2Model ----
(***************************************************************************)
(* Model of weather.py: OpenWeatherApi (request building, record mapping)  *)
(* and di_to_csv (append rows to a CSV file, header only for a new file).  *)
(*                                                                         *)
(* Text is a sequence of one-character strings, so that joining, splitting *)
(* and lower-casing are computed character by character.                   *)
(***************************************************************************)
EXTENDS Integers, Sequences, FiniteSets, TLC

VARIABLES
    fs,              \* the file system: path -> [exists, content]
    target,          \* the path the di_to_csv calls of a behaviour are made on
    log,             \* the di_to_csv calls made so far, oldest first
    tz,              \* the machine's offset from UTC, in seconds
    pc,              \* position of the script: idle, fetch, write, done, failed
    api_key,         \* sys.argv[1]
    outputfilepath,  \* sys.argv[2], with '.csv' appended when missing
    city_ix,         \* index in cities of the city fetched next
    weather_li,      \* the records fetched so far in this run
    nets,            \* what the network answered to each of them
    requests,        \* the URLs requested in this run
    err,             \* the uncaught exception that ended the run
    runPre,          \* the file system when the run started
    nruns,           \* runs started so far
    call,            \* the last direct call of get_weather_for_city
    procs            \* concurrent di_to_csv invocations: their locals

mainVars == <<pc, api_key, outputfilepath, city_ix, weather_li, nets, requests,
              err, runPre, nruns>>
vars == <<fs, target, log, tz, pc, api_key, outputfilepath, city_ix,
          weather_li,
          nets, requests, err, runPre, nruns, call, procs>>

(***************************************************************************)
(* Bounds of the model.                                                    *)
(***************************************************************************)
MaxRecords == 2
MaxCalls == 2
MaxRuns == 2

(***************************************************************************)
(* Python values and their str().                                          *)
(* A value is [s |-> text], [n |-> integer] or [f |-> tenths]: a float is  *)
(* held as its number of tenths (50.1 is 501).                             *)
(***************************************************************************)
Digit == <<"0","1","2","3","4","5","6","7","8","9">>

RECURSIVE NatStr(_)
NatStr(n) ==
    IF n < 10 THEN <<Digit[n + 1]>>
    ELSE NatStr(n \div 10) \o <<Digit[(n % 10) + 1]>>

IntStr(n) == IF n < 0 THEN <<"-">> \o NatStr(-n) ELSE NatStr(n)

FloatStr(t) ==
    LET a == IF t < 0 THEN -t ELSE t
    IN  (IF t < 0 THEN <<"-">> ELSE <<>>)
            \o NatStr(a \div 10) \o <<".">> \o <<Digit[(a % 10) + 1]>>

Str(v) ==
    IF "s" \in DOMAIN v THEN v.s
    ELSE IF "n" \in DOMAIN v THEN IntStr(v.n)
    ELSE FloatStr(v.f)

\* Mutant of Join: the separator is dropped after the first element.
RECURSIVE JoinFirstOnly(_, _)
JoinFirstOnly(sep, li) ==
    IF li = <<>> THEN <<>>
    ELSE IF Len(li) = 1 THEN li[1]
    ELSE li[1] \o JoinFirstOnly(sep, Tail(li))

\* sep.join(li)
RECURSIVE Join(_, _)
Join(sep, li) ==
    IF li = <<>> THEN <<>>
    ELSE IF Len(li) = 1 THEN li[1]
    ELSE li[1] \o sep \o Join(sep, Tail(li))

(***************************************************************************)
(* An OrderedDict is a sequence of items [k |-> text, v |-> value].        *)
(***************************************************************************)
Keys(di) == [j \in 1..Len(di) |-> di[j].k]

Values(di) == [j \in 1..Len(di) |-> Str(di[j].v)]

(***************************************************************************)
(* The file system: every path of the model maps to a file that exists or  *)
(* not, with its content.  BadPath lies in a directory that does not exist *)
(* and cannot be opened.                                                   *)
(***************************************************************************)
GoodPath == <<"w",".","c","s","v">>
BadPath == <<"d","/","w",".","c","s","v">>
Paths == {GoodPath, BadPath}

NoFile == [exists |-> FALSE, content |-> <<>>]

CanOpen(filepath) == filepath # BadPath

\* os.path.isfile(filepath)
IsFile(fsys, filepath) == fsys[filepath].exists

\* list_of_value_li before the header is inserted
ValueRows(input_li_of_di) ==
    [n \in 1..Len(input_li_of_di) |-> Values(input_li_of_di[n])]

\* Mutant of WithHeader: the header is inserted on every call.
WithHeaderAlways(input_li_of_di, csv_exists) ==
    IF input_li_of_di = <<>> THEN <<>>
    ELSE <<Keys(input_li_of_di[1])>> \o ValueRows(input_li_of_di)

\* Mutant of WithHeader: the header is never inserted.
WithHeaderNever(input_li_of_di, csv_exists) == ValueRows(input_li_of_di)

\* list_of_value_li after "if not csv_exists: insert(0, keys of first)"
WithHeader(input_li_of_di, csv_exists) ==
    IF ~csv_exists
    THEN <<Keys(input_li_of_di[1])>> \o ValueRows(input_li_of_di)
    ELSE ValueRows(input_li_of_di)

\* csv_rows_li
CsvRows(input_li_of_di, csv_exists) ==
    LET list_of_value_li == WithHeader(input_li_of_di, csv_exists)
    IN  [n \in 1..Len(list_of_value_li) |-> Join(<<",">>, list_of_value_li[n])]

\* Mutant of OpenAppend: the file is opened with 'w' and truncated.
OpenTruncate(content) == <<>>

\* open(filepath, 'a'): the content the writes start from
OpenAppend(content) == content

\* Mutant of WriteLines: the last line is written without its newline.
RECURSIVE WriteLinesLastBare(_, _)
WriteLinesLastBare(content, rows) ==
    IF rows = <<>> THEN content
    ELSE IF Len(rows) = 1 THEN content \o rows[1]
    ELSE WriteLinesLastBare(content \o rows[1] \o <<"\n">>, Tail(rows))

\* for line in csv_rows_li: f.write(line + '\n')
RECURSIVE WriteLines(_, _)
WriteLines(content, rows) ==
    IF rows = <<>> THEN content
    ELSE WriteLines(content \o rows[1] \o <<"\n">>, Tail(rows))

\* Mutant of RaisesIndexError: the first record is read on every call.
RaisesIndexErrorAlways(input_li_of_di, csv_exists) ==
    input_li_of_di = <<>>

\* "input_li_of_di[0]" is evaluated only to build the header
RaisesIndexError(input_li_of_di, csv_exists) ==
    ~csv_exists /\ input_li_of_di = <<>>

\* di_to_csv(input_li_of_di, filepath): the exception raised ("none" when it
\* returns), the file system it leaves, and what it saw and wrote.
DiToCsv(fsys, input_li_of_di, filepath) ==
    LET csv_exists == IsFile(fsys, filepath)
    IN  IF RaisesIndexError(input_li_of_di, csv_exists)
        THEN [exc |-> "IndexError", fs |-> fsys,
              csv_exists |-> csv_exists, rows |-> <<>>]
        ELSE IF ~CanOpen(filepath)
        THEN [exc |-> "IOError", fs |-> fsys,
              csv_exists |-> csv_exists, rows |-> <<>>]
        ELSE LET csv_rows_li == CsvRows(input_li_of_di, csv_exists)
             IN  [exc |-> "none",
                  fs |-> [fsys EXCEPT ![filepath] =
                            [exists |-> TRUE,
                             content |-> WriteLines(OpenAppend(@.content),
                                                    csv_rows_li)]],
                  csv_exists |-> csv_exists, rows |-> csv_rows_li]

(***************************************************************************)
(* OpenWeatherApi.                                                         *)
(***************************************************************************)
Boston == <<"b","o","s","t","o","n">>
SanFrancisco == <<"s","a","n"," ","f","r","a","n","c","i","s","c","o">>
London == <<"l","o","n","d","o","n">>

\* city -> (latitude, longitude), in tenths of a degree
CITY_GEO_COORDINATES ==
    [c \in {Boston, SanFrancisco, London} |->
        CASE c = Boston -> <<423, -711>>
          [] c = SanFrancisco -> <<377, -1224>>
          [] c = London -> <<515, -1>>]

base_url ==
    <<"h","t","t","p","s",":","/","/","a","p","i",".","o","p","e","n","w",
      "e","a","t","h","e","r","m","a","p",".","o","r","g","/","d","a","t",
      "a","/","2",".","5">>

UpperCase ==
    <<"A","B","C","D","E","F","G","H","I","J","K","L","M","N","O","P","Q",
      "R","S","T","U","V","W","X","Y","Z">>
LowerCase ==
    <<"a","b","c","d","e","f","g","h","i","j","k","l","m","n","o","p","q",
      "r","s","t","u","v","w","x","y","z">>

\* Mutant of Lower: the name is looked up as given.
LowerNot(text) == text

\* text.lower()
Lower(text) ==
    [n \in 1..Len(text) |->
        IF \E u \in 1..Len(UpperCase) : UpperCase[u] = text[n]
        THEN LowerCase[CHOOSE u \in 1..Len(UpperCase) : UpperCase[u] = text[n]]
        ELSE text[n]]

\* Mutant of FormatArguments: the API key comes first.
FormatArgumentsKeyFirst(key, arguments) ==
    <<"?">> \o <<"a","p","p","i","d","=">> \o key \o <<"&">>
        \o Join(<<"&">>,
                [n \in 1..Len(arguments) |->
                    arguments[n].k \o <<"=">> \o Str(arguments[n].v)])

\* _format_arguments(**arguments): '?' + '&'.join(k=v) + '&appid=' + api_key
FormatArguments(key, arguments) ==
    LET arguments_li ==
            [n \in 1..Len(arguments) |->
                arguments[n].k \o <<"=">> \o Str(arguments[n].v)]
    IN  <<"?">> \o Join(<<"&">>, arguments_li)
            \o <<"&","a","p","p","i","d","=">> \o key

\* _get(endpoint, **arguments): the URL requested
GetUrl(key, endpoint, arguments) ==
    base_url \o endpoint \o FormatArguments(key, arguments)

\* time.localtime(dt): the civil date of dt seconds since the epoch, at
\* offset off from UTC, as <<year, month, day>>
LocalDate(dt, off) ==
    LET days == (dt + off) \div 86400
        z == days + 719468
        era == z \div 146097
        doe == z - era * 146097
        yoe == (doe - doe \div 1460 + doe \div 36524 - doe \div 146096) \div 365
        doy == doe - (365 * yoe + yoe \div 4 - yoe \div 100)
        mp == (5 * doy + 2) \div 153
        d == doy - (153 * mp + 2) \div 5 + 1
        m == IF mp < 10 THEN mp + 3 ELSE mp - 9
        y == yoe + era * 400 + (IF m <= 2 THEN 1 ELSE 0)
    IN  <<y, m, d>>

Pad2(n) == IF n < 10 THEN <<"0">> \o NatStr(n) ELSE NatStr(n)

\* time.strftime('%m/%d/%Y', time.localtime(dt))
DateStr(dt, off) ==
    LET ymd == LocalDate(dt, off)
    IN  Pad2(ymd[2]) \o <<"/">> \o Pad2(ymd[3]) \o <<"/">> \o NatStr(ymd[1])

\* Mutant of WeatherRecord: pressure and humidity change places.
WeatherRecordSwapped(city, response_di, off) ==
    << [k |-> <<"c","i","t","y">>, v |-> [s |-> city]],
       [k |-> <<"d","a","t","e">>, v |-> [s |-> DateStr(response_di.dt, off)]],
       [k |-> <<"t","e","m","p","e","r","a","t","u","r","e">>,
        v |-> response_di.temp],
       [k |-> <<"d","e","s","c","r","i","p","t","i","o","n">>,
        v |-> [s |-> response_di.weather[1].description]],
       [k |-> <<"h","u","m","i","d","i","t","y">>, v |-> response_di.humidity],
       [k |-> <<"p","r","e","s","s","u","r","e">>, v |-> response_di.pressure] >>

\* The OrderedDict get_weather_for_city returns
WeatherRecord(city, response_di, off) ==
    << [k |-> <<"c","i","t","y">>, v |-> [s |-> city]],
       [k |-> <<"d","a","t","e">>, v |-> [s |-> DateStr(response_di.dt, off)]],
       [k |-> <<"t","e","m","p","e","r","a","t","u","r","e">>,
        v |-> response_di.temp],
       [k |-> <<"d","e","s","c","r","i","p","t","i","o","n">>,
        v |-> [s |-> response_di.weather[1].description]],
       [k |-> <<"p","r","e","s","s","u","r","e">>, v |-> response_di.pressure],
       [k |-> <<"h","u","m","i","d","i","t","y">>, v |-> response_di.humidity] >>

Raised(exc, line, urls) ==
    [exc |-> exc, line |-> line, requests |-> urls, value |-> <<>>]

\* The exception reading the response raises, by the line that raises it, or
\* "none".  A dictionary display evaluates its values in order.
ResponseError(net) ==
    IF net.kind = "notjson" THEN <<"JSONDecodeError", 70>>
    ELSE IF "current" \notin DOMAIN net.body THEN <<"KeyError", 70>>
    ELSE LET response_di == net.body.current
         IN  IF "dt" \notin DOMAIN response_di THEN <<"KeyError", 74>>
             ELSE IF "temp" \notin DOMAIN response_di THEN <<"KeyError", 75>>
             ELSE IF "weather" \notin DOMAIN response_di
                  THEN <<"KeyError", 76>>
             ELSE IF response_di.weather = <<>> THEN <<"IndexError", 76>>
             ELSE IF "description" \notin DOMAIN response_di.weather[1]
                  THEN <<"KeyError", 76>>
             ELSE IF "pressure" \notin DOMAIN response_di
                  THEN <<"KeyError", 77>>
             ELSE IF "humidity" \notin DOMAIN response_di
                  THEN <<"KeyError", 78>>
             ELSE <<"none", 0>>

\* get_weather_for_city(city) with api_key key, when the network answers net
\* and the machine is at offset off: the exception raised and the line that
\* raises it ("none" when it returns), the URLs requested, the record.
GetWeatherForCity(key, city, net, off) ==
    IF Lower(city) \notin DOMAIN CITY_GEO_COORDINATES
    THEN Raised("KeyError", 67, <<>>)
    ELSE LET latitude == CITY_GEO_COORDINATES[Lower(city)][1]
             longitude == CITY_GEO_COORDINATES[Lower(city)][2]
             url == GetUrl(key, <<"/","o","n","e","c","a","l","l">>,
                      << [k |-> <<"l","a","t">>, v |-> [f |-> latitude]],
                         [k |-> <<"l","o","n">>, v |-> [f |-> longitude]],
                         [k |-> <<"e","x","c","l","u","d","e">>,
                          v |-> [s |-> <<"h","o","u","r","l","y",",","d",
                                         "a","i","l","y",",","m","i","n",
                                         "u","t","e","l","y">>]],
                         [k |-> <<"u","n","i","t","s">>,
                          v |-> [s |-> <<"i","m","p","e","r","i","a","l">>]] >>)
         IN  IF net.kind = "raise"
             THEN Raised("ConnectionError", 37, <<url>>)
             ELSE IF ResponseError(net)[1] # "none"
             THEN Raised(ResponseError(net)[1], ResponseError(net)[2], <<url>>)
             ELSE [exc |-> "none", line |-> 0, requests |-> <<url>>,
                   value |-> WeatherRecord(city, net.body.current, off)]

\* outputfilepath.endswith(suffix)
EndsWith(text, suffix) ==
    /\ Len(suffix) <= Len(text)
    /\ SubSeq(text, Len(text) - Len(suffix) + 1, Len(text)) = suffix

\* lines 116-118
OutputPath(arg) ==
    IF ~EndsWith(arg, <<".","c","s","v">>)
    THEN arg \o <<".","c","s","v">>
    ELSE arg

cities == <<Boston, SanFrancisco, London>>

(***************************************************************************)
(* What the network may answer: the request fails, the body is not JSON,   *)
(* or it is one of these JSON objects.                                     *)
(***************************************************************************)
BodyDoc ==
    [current |->
        [dt |-> 1666542000, temp |-> [f |-> 501],
         weather |-> <<[description |-> <<"f","e","w"," ","c","l","o","u","d","s">>]>>,
         pressure |-> [n |-> 1026], humidity |-> [n |-> 35]]]
BodyNewYear ==
    [current |->
        [dt |-> 1672531199, temp |-> [n |-> -4],
         weather |-> <<[description |-> <<"r","a","i","n",","," ","h","e","a","v","y">>],
                       [description |-> <<"m","i","s","t">>]>>,
         pressure |-> [n |-> 998], humidity |-> [n |-> 100]]]
BodyError == [cod |-> 401]
BodyNoWeather ==
    [current |->
        [dt |-> 1666542000, temp |-> [f |-> 501], weather |-> <<>>,
         pressure |-> [n |-> 1026], humidity |-> [n |-> 35]]]
BodyNoHumidity ==
    [current |->
        [dt |-> 1666542000, temp |-> [f |-> 501],
         weather |-> <<[description |-> <<"m","i","s","t">>]>>,
         pressure |-> [n |-> 1026]]]

NetOutcomes ==
    {[kind |-> "raise"], [kind |-> "notjson"]}
        \cup {[kind |-> "json", body |-> b] :
                b \in {BodyDoc, BodyNewYear, BodyError, BodyNoWeather,
                       BodyNoHumidity}}

ApiKeys == {<<"k","1">>, <<>>}
PathArgs == {<<"w">>, <<"w",".","c","s","v">>, <<"d","/","w">>}
TzOffsets == {-18000, 3600}
CityInputs ==
    {Boston, SanFrancisco, London,
     <<"B","O","S","T","O","N">>, <<"B","o","s","t","o","n">>,
     <<"S","a","n"," ","F","r","a","n","c","i","s","c","o">>,
     <<"L","o","N","d","O","n">>,
     <<"p","a","r","i","s">>, <<"P","A","R","I","S">>,
     <<" ","b","o","s","t","o","n">>, <<>>}

(***************************************************************************)
(* Inputs of di_to_csv: a record of three fields (empty string, negative   *)
(* integer, float), one whose values hold a comma and a newline, and one   *)
(* with another field set.                                                 *)
(***************************************************************************)
DictA ==
    << [k |-> <<"a">>, v |-> [s |-> <<>>]],
       [k |-> <<"b">>, v |-> [n |-> -7]],
       [k |-> <<"c">>, v |-> [f |-> 501]] >>
DictB ==
    << [k |-> <<"a">>, v |-> [s |-> <<"p",",","q">>]],
       [k |-> <<"b">>, v |-> [s |-> <<"u","\n","v">>]] >>
DictC == << [k |-> <<"c">>, v |-> [s |-> <<>>]] >>
Dicts == {DictA, DictB, DictC}

Inputs == UNION {[1..n -> Dicts] : n \in 0..MaxRecords}

\* Files that may be there before the first call: none, an empty file, or
\* the output of an earlier run.
OldContent ==
    <<"a",",","b",",","c","\n",",","-","7",",","5","0",".","1","\n">>
InitFiles == {NoFile, [exists |-> TRUE, content |-> <<>>],
              [exists |-> TRUE, content |-> OldContent]}

NoCall == [city |-> <<>>, key |-> <<>>, net |-> [kind |-> "raise"],
           result |-> Raised("none", 0, <<>>)]
NoErr == [exc |-> "none", line |-> 0]

IdleCsv == target = GoodPath /\ log = <<>>
IdleMain ==
    /\ pc = "idle"
    /\ api_key = <<>>
    /\ outputfilepath = <<>>
    /\ city_ix = 1
    /\ weather_li = <<>>
    /\ nets = <<>>
    /\ requests = <<>>
    /\ err = NoErr
    /\ runPre = fs
    /\ nruns = 0
IdleApi == call = NoCall
IdleRace == procs = <<>>

InitFs == fs \in {f \in [Paths -> InitFiles] : f[BadPath] = NoFile}

(***************************************************************************)
(* SpecCsv: any sequence of di_to_csv calls on one path.                   *)
(***************************************************************************)
InitCsv ==
    /\ InitFs
    /\ target \in Paths
    /\ log = <<>>
    /\ tz = 0
    /\ IdleMain /\ IdleApi /\ IdleRace

\* One call of di_to_csv on the target path, recorded in the log.
CallDiToCsv ==
    /\ Len(log) < MaxCalls
    /\ \E input \in Inputs :
         \E r \in {DiToCsv(fs, input, target)} :
             /\ fs' = r.fs
             /\ log' = Append(log, [input |-> input, pre |-> fs,
                                    exc |-> r.exc,
                                    csv_exists |-> r.csv_exists,
                                    rows |-> r.rows])
    /\ UNCHANGED <<target, tz, mainVars, call, procs>>

NextCsv == CallDiToCsv

SpecCsv == InitCsv /\ [][NextCsv]_vars

(***************************************************************************)
(* Spec: runs of the script, one after the other.                          *)
(***************************************************************************)
Init ==
    /\ InitFs
    /\ tz \in TzOffsets
    /\ IdleCsv /\ IdleMain /\ IdleApi /\ IdleRace

\* lines 115-124: the arguments are read and the client is made
StartRun ==
    /\ pc \in {"idle", "done", "failed"}
    /\ nruns < MaxRuns
    /\ \E key \in ApiKeys, arg \in PathArgs :
         /\ api_key' = key
         /\ outputfilepath' = OutputPath(arg)
    /\ pc' = "fetch"
    /\ city_ix' = 1
    /\ weather_li' = <<>>
    /\ nets' = <<>>
    /\ requests' = <<>>
    /\ err' = NoErr
    /\ runPre' = fs
    /\ nruns' = nruns + 1
    /\ UNCHANGED <<fs, target, log, tz, call, procs>>

\* Mutant of Fetch: each record is written as soon as it is fetched.
FetchAndWrite ==
    /\ pc = "fetch"
    /\ \E net \in NetOutcomes :
         \E r \in {GetWeatherForCity(api_key, cities[city_ix], net, tz)} :
             /\ requests' = requests \o r.requests
             /\ IF r.exc = "none"
                THEN /\ weather_li' = Append(weather_li, r.value)
                     /\ nets' = Append(nets, net)
                     /\ city_ix' = city_ix + 1
                     /\ pc' = IF city_ix = Len(cities) THEN "done" ELSE "fetch"
                     /\ fs' = DiToCsv(fs, <<r.value>>, outputfilepath).fs
                     /\ err' = err
                ELSE /\ pc' = "failed"
                     /\ err' = [exc |-> r.exc, line |-> r.line]
                     /\ UNCHANGED <<weather_li, nets, city_ix, fs>>
    /\ UNCHANGED <<target, log, tz, api_key, outputfilepath, runPre,
                   nruns, call, procs>>

\* lines 125-126: one turn of the loop; an exception ends the run
Fetch ==
    /\ pc = "fetch"
    /\ \E net \in NetOutcomes :
         \E r \in {GetWeatherForCity(api_key, cities[city_ix], net, tz)} :
             /\ requests' = requests \o r.requests
             /\ IF r.exc = "none"
                THEN /\ weather_li' = Append(weather_li, r.value)
                     /\ nets' = Append(nets, net)
                     /\ city_ix' = city_ix + 1
                     /\ pc' = IF city_ix = Len(cities) THEN "write" ELSE "fetch"
                     /\ err' = err
                ELSE /\ pc' = "failed"
                     /\ err' = [exc |-> r.exc, line |-> r.line]
                     /\ UNCHANGED <<weather_li, nets, city_ix>>
    /\ UNCHANGED <<fs, target, log, tz, api_key, outputfilepath, runPre,
                   nruns, call, procs>>

\* line 129: di_to_csv(weather_li, outputfilepath)
Write ==
    /\ pc = "write"
    /\ \E r \in {DiToCsv(fs, weather_li, outputfilepath)} :
           /\ fs' = r.fs
           /\ pc' = IF r.exc = "none" THEN "done" ELSE "failed"
           /\ err' = IF r.exc = "none" THEN err
                     ELSE [exc |-> r.exc, line |-> 109]
    /\ UNCHANGED <<target, log, tz, api_key, outputfilepath, city_ix,
                   weather_li,
                   nets, requests, runPre, nruns, call, procs>>

Next == StartRun \/ Fetch \/ Write

Spec == Init /\ [][Next]_vars

(***************************************************************************)
(* SpecApi: get_weather_for_city called with any city name.                *)
(***************************************************************************)
InitApi ==
    /\ fs = [p \in Paths |-> NoFile]
    /\ tz \in TzOffsets
    /\ IdleCsv /\ IdleMain /\ IdleApi /\ IdleRace

CallGetWeather ==
    /\ \E key \in ApiKeys, city \in CityInputs, net \in NetOutcomes :
         call' = [city |-> city, key |-> key, net |-> net,
                  result |-> GetWeatherForCity(key, city, net, tz)]
    /\ UNCHANGED <<fs, target, log, tz, mainVars, procs>>

NextApi == CallGetWeather

SpecApi == InitApi /\ [][NextApi]_vars

(***************************************************************************)
(* SpecRace: two invocations of di_to_csv on the same path at once.  Each  *)
(* goes through lines 95 (the existence check), 98-109 (the rows are       *)
(* built, the file is opened for append, which creates it) and 110-111     *)
(* (the lines are written); the steps of the two interleave.  What a       *)
(* buffered file writes reaches the file at some flush, at the latest when *)
(* the file is closed: here each line may reach it on its own.             *)
(***************************************************************************)
Procs == {1, 2}

RaceInputs == UNION {[1..n -> {DictA, DictC}] : n \in 0..MaxRecords}

InitRace ==
    /\ InitFs
    /\ target = GoodPath
    /\ log = <<>>
    /\ tz = 0
    /\ IdleMain /\ IdleApi
    /\ procs \in [Procs -> {[pc |-> "check", input |-> inp,
                             csv_exists |-> FALSE, rows |-> <<>>] :
                                inp \in RaceInputs}]

\* line 95
RaceCheck(p) ==
    /\ procs[p].pc = "check"
    /\ procs' = [procs EXCEPT ![p].pc = "open",
                              ![p].csv_exists = IsFile(fs, target)]
    /\ UNCHANGED <<fs, target, log, tz, mainVars, call>>

\* lines 98-109
RaceOpen(p) ==
    /\ procs[p].pc = "open"
    /\ IF RaisesIndexError(procs[p].input, procs[p].csv_exists)
       THEN /\ procs' = [procs EXCEPT ![p].pc = "failed"]
            /\ fs' = fs
       ELSE /\ procs' = [procs EXCEPT
                            ![p].pc = "write",
                            ![p].rows = CsvRows(procs[p].input,
                                                procs[p].csv_exists)]
            /\ fs' = [fs EXCEPT ![target] =
                        [exists |-> TRUE, content |-> OpenAppend(@.content)]]
    /\ UNCHANGED <<target, log, tz, mainVars, call>>

\* lines 110-111, one line
RaceWrite(p) ==
    /\ procs[p].pc = "write"
    /\ procs[p].rows # <<>>
    /\ fs' = [fs EXCEPT ![target].content =
                WriteLines(@, <<Head(procs[p].rows)>>)]
    /\ procs' = [procs EXCEPT ![p].rows = Tail(@)]
    /\ UNCHANGED <<target, log, tz, mainVars, call>>

\* the with block ends: the file is closed
RaceClose(p) ==
    /\ procs[p].pc = "write"
    /\ procs[p].rows = <<>>
    /\ procs' = [procs EXCEPT ![p].pc = "done"]
    /\ UNCHANGED <<fs, target, log, tz, mainVars, call>>

NextRace ==
    \E p \in Procs : RaceCheck(p) \/ RaceOpen(p) \/ RaceWrite(p) \/ RaceClose(p)

SpecRace == InitRace /\ [][NextRace]_vars

(***************************************************************************)
(* What the claims speak of, stated apart from the operators above.        *)
(***************************************************************************)
Last == log[Len(log)]

IsPrefix(a, b) == Len(a) <= Len(b) /\ SubSeq(b, 1, Len(a)) = a

\* The text after the prefix a of b.
Suffix(a, b) == SubSeq(b, Len(a) + 1, Len(b))

\* text.split(c)
RECURSIVE Split(_, _)
Split(text, c) ==
    IF \A i \in 1..Len(text) : text[i] # c THEN <<text>>
    ELSE LET i == CHOOSE i \in 1..Len(text) :
                    /\ text[i] = c
                    /\ \A j \in 1..(i - 1) : text[j] # c
         IN  <<SubSeq(text, 1, i - 1)>>
                \o Split(SubSeq(text, i + 1, Len(text)), c)

\* The newline-terminated lines of a text.
Lines(text) ==
    LET parts == Split(text, "\n") IN SubSeq(parts, 1, Len(parts) - 1)

\* The fields of one record, comma-separated, character by character.
RECURSIVE FieldsFrom(_, _)
FieldsFrom(di, j) ==
    IF j > Len(di) THEN <<>>
    ELSE (IF j > 1 THEN <<",">> ELSE <<>>) \o Str(di[j].v)
            \o FieldsFrom(di, j + 1)

RECURSIVE NamesFrom(_, _)
NamesFrom(di, j) ==
    IF j > Len(di) THEN <<>>
    ELSE (IF j > 1 THEN <<",">> ELSE <<>>) \o di[j].k \o NamesFrom(di, j + 1)

HeaderText(di) == NamesFrom(di, 1) \o <<"\n">>

RECURSIVE DataText(_)
DataText(input) ==
    IF input = <<>> THEN <<>>
    ELSE FieldsFrom(input[1], 1) \o <<"\n">> \o DataText(Tail(input))

\* The data text of the calls n..Len(log), in call order.
RECURSIVE DataOfCalls(_)
DataOfCalls(n) ==
    IF n > Len(log) THEN <<>> ELSE DataText(log[n].input) \o DataOfCalls(n + 1)

\* No field value of the input holds a comma or a newline.
Clean(input) ==
    \A n \in 1..Len(input) : \A j \in 1..Len(input[n]) :
        LET t == Str(input[n][j].v)
        IN  \A i \in 1..Len(t) : t[i] \notin {",", "\n"}

AllNonEmpty == \A n \in 1..Len(log) : log[n].input # <<>>

\* C1: after any sequence of di_to_csv calls with non-empty lists on one
\* path that was absent at the start, the file is the header of the first
\* call followed by the data lines of all calls: the header was written
\* once, first; the call that found the path absent wrote it, and every call
\* that found the file wrote len(records) lines and no header.
C1_HeaderOnce ==
    (/\ log # <<>>
     /\ CanOpen(target)
     /\ ~log[1].pre[target].exists
     /\ AllNonEmpty)
    => /\ fs[target].exists
       /\ fs[target].content
            = HeaderText(log[1].input[1]) \o DataOfCalls(1)
       /\ \A n \in 1..Len(log) :
            /\ log[n].exc = "none"
            /\ log[n].csv_exists <=> (n > 1)
            /\ Len(log[n].rows)
                 = Len(log[n].input) + (IF n = 1 THEN 1 ELSE 0)

C1_Witness ==
    /\ Len(log) >= 2
    /\ CanOpen(target)
    /\ ~log[1].pre[target].exists
    /\ AllNonEmpty
    /\ Len(log[2].input) >= 2

\* C2: di_to_csv with a non-empty list on a path that does not exist creates
\* the file with exactly the header line of the first record's field names,
\* then one line per record in input order, each newline-terminated.
C2_NewFileContent ==
    (/\ log # <<>>
     /\ Last.exc = "none"
     /\ ~Last.pre[target].exists
     /\ Last.input # <<>>)
    => fs[target] = [exists |-> TRUE,
                     content |-> HeaderText(Last.input[1])
                                    \o DataText(Last.input)]

C2_Witness ==
    /\ log # <<>>
    /\ Last.exc = "none"
    /\ ~Last.pre[target].exists
    /\ Len(Last.input) >= 2
    /\ Last.input[1] # Last.input[2]

\* C3 (as stated): di_to_csv([], path) raises for every path, whether the
\* file exists or not, and leaves the file system unchanged.
C3_EmptyAlwaysFails ==
    (log # <<>> /\ Last.input = <<>>)
    => (Last.exc = "IndexError" /\ fs = Last.pre)

\* C3 (amended): di_to_csv([], path) raises exactly when no file exists at
\* the path; on an existing file it returns normally; in both cases the
\* file system is left unchanged.
C3_EmptyFailsIffAbsent ==
    (log # <<>> /\ Last.input = <<>>)
    => /\ (Last.exc = "IndexError") <=> ~Last.pre[target].exists
       /\ Last.pre[target].exists => Last.exc = "none"
       /\ fs = Last.pre

C3_Witness ==
    /\ log # <<>>
    /\ Last.input = <<>>
    /\ Last.pre[target].exists
    /\ Last.pre[target].content # <<>>

\* C7: the file is append-only: in every step each file that exists still
\* exists and its content before the step is a prefix of its content after.
C7_AppendOnly ==
    [][\A p \in Paths :
          /\ fs[p].exists => fs'[p].exists
          /\ IsPrefix(fs[p].content, fs'[p].content)]_vars

C7_Witness ==
    /\ log # <<>>
    /\ Last.exc = "none"
    /\ Last.pre[target].content # <<>>
    /\ Len(fs[target].content) > Len(Last.pre[target].content)

\* C8: for a non-empty list whose field values hold no comma and no newline,
\* splitting each data line the call wrote on commas gives back the
\* stringified field values of the corresponding record, in order.
C8_RoundTrip ==
    (/\ log # <<>>
     /\ Last.exc = "none"
     /\ Last.input # <<>>
     /\ Clean(Last.input))
    => LET written == Lines(Suffix(Last.pre[target].content,
                                   fs[target].content))
           data == IF Last.csv_exists THEN written ELSE Tail(written)
       IN  /\ Len(data) = Len(Last.input)
           /\ \A n \in 1..Len(data) :
                Split(data[n], ",")
                  = [j \in 1..Len(Last.input[n]) |-> Str(Last.input[n][j].v)]

C8_Witness ==
    /\ log # <<>>
    /\ Last.exc = "none"
    /\ Len(Last.input) >= 2
    /\ Clean(Last.input)
    /\ Last.input[1] # Last.input[2]

\* C10: di_to_csv is not atomic between its existence check and its write:
\* when two invocations with non-empty lists on the same path both saw the
\* file absent and both have finished, the file holds two header lines.
C10_TwoHeaders ==
    (\A p \in Procs :
        /\ procs[p].pc = "done"
        /\ ~procs[p].csv_exists
        /\ procs[p].input # <<>>)
    => LET L == Lines(fs[target].content)
           headers == {NamesFrom(procs[p].input[1], 1) : p \in Procs}
       IN  /\ Cardinality({n \in 1..Len(L) : L[n] \in headers}) = 2
           /\ Len(L) = Len(procs[1].input) + Len(procs[2].input) + 2

C10_Witness ==
    /\ procs # <<>>
    /\ \A p \in Procs :
        /\ procs[p].pc = "done"
        /\ ~procs[p].csv_exists
        /\ procs[p].input # <<>>

\* Two names are the same but for the case of their letters.
SameButCase(a, b) ==
    /\ Len(a) = Len(b)
    /\ \A n \in 1..Len(a) :
          \/ a[n] = b[n]
          \/ \E u \in 1..Len(UpperCase) :
                {a[n], b[n]} = {UpperCase[u], LowerCase[u]}

Configured == {Boston, SanFrancisco, London}

\* The URL of the request for each configured city, up to the API key.
UrlUpToKey(c) ==
    CASE c = Boston ->
           <<"h","t","t","p","s",":","/","/","a","p","i",".","o","p","e","n",
             "w","e","a","t","h","e","r","m","a","p",".","o","r","g","/","d",
             "a","t","a","/","2",".","5","/","o","n","e","c","a","l","l","?",
             "l","a","t","=","4","2",".","3","&","l","o","n","=","-","7","1",
             ".","1","&","e","x","c","l","u","d","e","=","h","o","u","r","l",
             "y",",","d","a","i","l","y",",","m","i","n","u","t","e","l","y",
             "&","u","n","i","t","s","=","i","m","p","e","r","i","a","l","&",
             "a","p","p","i","d","=">>
      [] c = SanFrancisco ->
           <<"h","t","t","p","s",":","/","/","a","p","i",".","o","p","e","n",
             "w","e","a","t","h","e","r","m","a","p",".","o","r","g","/","d",
             "a","t","a","/","2",".","5","/","o","n","e","c","a","l","l","?",
             "l","a","t","=","3","7",".","7","&","l","o","n","=","-","1","2",
             "2",".","4","&","e","x","c","l","u","d","e","=","h","o","u","r",
             "l","y",",","d","a","i","l","y",",","m","i","n","u","t","e","l",
             "y","&","u","n","i","t","s","=","i","m","p","e","r","i","a","l",
             "&","a","p","p","i","d","=">>
      [] c = London ->
           <<"h","t","t","p","s",":","/","/","a","p","i",".","o","p","e","n",
             "w","e","a","t","h","e","r","m","a","p",".","o","r","g","/","d",
             "a","t","a","/","2",".","5","/","o","n","e","c","a","l","l","?",
             "l","a","t","=","5","1",".","5","&","l","o","n","=","-","0",".",
             "1","&","e","x","c","l","u","d","e","=","h","o","u","r","l","y",
             ",","d","a","i","l","y",",","m","i","n","u","t","e","l","y","&",
             "u","n","i","t","s","=","i","m","p","e","r","i","a","l","&","a",
             "p","p","i","d","=">>

\* The lookup of the city is the KeyError of line 67.
LookupFailed(r) == r.exc = "KeyError" /\ r.line = 67

\* C4: a run has no partial success: when a fetch fails the run ends with
\* the error and the file system is as it was when the run started; nothing
\* is written before all three fetches are done.
C4_NoPartialSuccess ==
    (pc = "fetch" \/ pc = "write" \/ (pc = "failed" /\ err.line # 109))
    => fs = runPre

C4_Witness ==
    /\ pc = "failed"
    /\ err.line # 109
    /\ Len(weather_li) = 2
    /\ runPre[outputfilepath].exists
    /\ nruns = 2

\* C5: get_weather_for_city fails with the lookup error exactly when the
\* name is not a casing of a configured city, and then requests nothing; a
\* casing of a configured name is resolved to that city's coordinates.
C5_LookupError ==
    call # NoCall
    => /\ LookupFailed(call.result)
            <=> ~\E c \in Configured : SameButCase(call.city, c)
       /\ LookupFailed(call.result) => call.result.requests = <<>>
       /\ \A c \in Configured :
            SameButCase(call.city, c)
            => /\ Len(call.result.requests) = 1
               /\ IsPrefix(UrlUpToKey(c), call.result.requests[1])

C5_Witness ==
    /\ call.city = <<"B","O","S","T","O","N">>
    /\ call.result.exc = "none"

DateOf(dt, off) ==
    CASE dt = 1666542000 -> <<"1","0","/","2","3","/","2","0","2","2">>
      [] dt = 1672531199 /\ off = -18000 ->
           <<"1","2","/","3","1","/","2","0","2","2">>
      [] dt = 1672531199 /\ off = 3600 ->
           <<"0","1","/","0","1","/","2","0","2","3">>

\* C9: every record get_weather_for_city produces has the six fields city,
\* date, temperature, description, pressure, humidity in this order, with
\* temperature, pressure and humidity copied from the response and the
\* description of the first entry of its weather list.
C9_RecordFields ==
    \A n \in 1..Len(weather_li) :
        LET rec == weather_li[n]
            cur == nets[n].body.current
        IN  /\ [j \in 1..Len(rec) |-> rec[j].k]
                 = << <<"c","i","t","y">>, <<"d","a","t","e">>,
                      <<"t","e","m","p","e","r","a","t","u","r","e">>,
                      <<"d","e","s","c","r","i","p","t","i","o","n">>,
                      <<"p","r","e","s","s","u","r","e">>,
                      <<"h","u","m","i","d","i","t","y">> >>
            /\ rec[1].v = [s |-> cities[n]]
            /\ rec[2].v = [s |-> DateOf(cur.dt, tz)]
            /\ rec[3].v = cur.temp
            /\ rec[4].v = [s |-> cur.weather[1].description]
            /\ rec[5].v = cur.pressure
            /\ rec[6].v = cur.humidity

C9_Witness ==
    /\ Len(weather_li) = 3
    /\ tz = 3600
    /\ nets[1].body = BodyNewYear
    /\ nets[2].body = BodyDoc
====
